---- MODULE Spec2Model ----
\* Model of sowbug/audio_prototype: the audio-interface subscription (bridge),
\* its worker thread and audio callback, the controller (iced application),
\* and the tone-generator thread with its bounded sample queue.
EXTENDS Integers, Sequences, FiniteSets, TLC

\* ---------------------------------------------------------------- bounds
\* Number of StreamPlay / StreamPause button presses the controller makes.
MaxCommands == 2
\* Number of audio callbacks the driver makes in the bridge system.
MaxCallbacks == 2
\* Largest small number of frames (output.len() / channel_count) of one
\* callback; callbacks of MinBatch - 1 and MinBatch frames are drawn as well.
MaxFrames == 1
\* Capacity of the AudioQueue (the buffer_size given to ArrayQueue::new).
Capacity == 66
\* Number of control messages the generator's client sends.
MaxControls == 3
\* Largest sample count of a GenerateAudio message.
MaxCount == 1
\* Number of audio callbacks the driver makes in the generator system.
MaxSinkCallbacks == 2
\* Number of Source* messages (buttons of the generator panel) the controller
\* handles.
MaxSourceMessages == 5
\* Largest buffer_size given to ArrayQueue::new in the queue-level system.
MaxCapacity == 3
\* Number of force_push calls the producer makes in the queue-level system.
MaxPushes == 5
\* Number of on_window invocations in the queue-level system.
MaxWindows == 2
\* Largest output.len() of one on_window invocation.
MaxOutputLen == 4
\* Largest channel count of the output device.
MaxChannels == 3

\* ------------------------------------------------------ program constants
\* The smallest shortfall for which a pulse starts a generation.
MinBatch == 64

VARIABLES
    \* --- subscription.rs: the bridge
    state,               \* State: "Start" | "Ready" | "Ending" | "Idle"
    handler,             \* the AudioStream thread behind the JoinHandle:
                         \* "none" | "init" | "loop" | "quit" | "done" | "panic"
    joined,              \* handler.join() has returned
    spawned,             \* number of std::thread::spawn calls made by the bridge
    app_input,           \* channel app_input_sender -> app_input_receiver
    app_input_forward,   \* channel app_input_forward_sender -> ..._receiver
    audio_stream_event,  \* channel audio_stream_event_sender -> ..._receiver
    events,              \* events the subscription has yielded, oldest first
    \* --- stream.rs: the AudioStream owned by the worker thread
    stream,              \* "none" | "failed" | "playing" | "paused" | "closed"
    queue,               \* AudioQueue contents, oldest first
    callbacks,           \* number of on_window invocations so far
    \* --- main.rs: the controller
    handled,             \* number of yielded events passed to update()
    audio_interface_sender, \* Option<Sender<..>> is Some
    windowClosed,        \* window::close() has been issued
    commands,            \* number of StreamPlay / StreamPause messages so far
    \* --- history
    sent,                \* inputs accepted by app_input, in send order
    received,            \* inputs dequeued by the worker thread, in order
    pulses,              \* non-Quit events sent on audio_stream_event, in order
    \* --- generator.rs: the generator thread and its Synthesizer
    genPc,               \* "start" | "loop" | "generating" | "done"
    is_playing,
    sample_clock,
    frequency,           \* f32, as [m, e] standing for m * 2^e
    remaining,           \* frames of the generate_audio call in progress
    generator_receiver,  \* channel client_sender -> generator_receiver
    needs_more_data,     \* pulses waiting in needs_more_data_receiver
    client_receiver,     \* channel generator_sender -> client_receiver
    controls,            \* number of control messages the client has sent
    sinkCallbacks,       \* number of on_window invocations so far
    \* --- history
    genSent,             \* control messages accepted by the channel, in order
    genApplied,          \* control messages dequeued by the thread, in order
    pulsesHandled,       \* pulses dequeued by the thread
    \* --- main.rs: the controller's own Synthesizer (synthesizer.rs)
    synthesizer,         \* [sample_rate, sample_clock, frequency, is_playing,
                         \*  fake_delay]
    app_queue,           \* Option<AudioQueue> is Some
    sample_rate,         \* Option<usize>: "None" or the rate
    sourceMessages,      \* number of Source* messages handled so far
    \* --- history
    frequencyChanges,    \* SourceChangeFrequency messages applied to the
                         \* Synthesizer the controller holds now
    \* --- the queue and the audio callback, one queue operation per step
    sink_queue,          \* ArrayQueue: [capacity, items], items oldest first
    channel_count,       \* config.channels of the output device
    window,              \* the on_window invocation: [pc, output, frame]
    windows,             \* number of on_window invocations started
    windowPulses,        \* needs_more_data_sender.send(true) calls made
    pushCount,           \* number of force_push calls made
    \* --- history
    pushedRun,           \* samples pushed since the last pop, in push order
    poppedNow            \* pops made by the on_window invocation in progress

bridgeVars == <<state, handler, joined, spawned, app_input, app_input_forward,
                audio_stream_event, events, stream, callbacks, handled,
                audio_interface_sender, windowClosed, commands, sent, received,
                pulses>>

genVars == <<genPc, is_playing, sample_clock, frequency, remaining,
             generator_receiver, needs_more_data, client_receiver, controls,
             sinkCallbacks, genSent, genApplied, pulsesHandled>>

appVars == <<synthesizer, app_queue, sample_rate, sourceMessages,
            frequencyChanges>>

sinkVars == <<sink_queue, channel_count, window, windows, windowPulses,
              pushCount, pushedRun, poppedNow>>

vars == <<bridgeVars, genVars, appVars, sinkVars, queue>>

\* ------------------------------------------------------------ data types
\* AudioInterfaceInput (subscription.rs:8-13)
AudioInterfaceInput == {"SetBufferSize", "Play", "Pause", "Quit"}

\* AudioInterfaceEvent (subscription.rs:16-21); id orders the pulses.
ReadyEvent == [type |-> "Ready", id |-> 0]
QuitEvent == [type |-> "Quit", id |-> 0]
NeedsAudioEvent(n) == [type |-> "NeedsAudio", id |-> n]

\* Reset(sample_rate, queue) and NeedsAudio(when, count) as the controller
\* receives them.
ResetEvent(rate) == [type |-> "Reset", id |-> 0, sample_rate |-> rate]
NeedsAudioCount(n, c) == [type |-> "NeedsAudio", id |-> n, count |-> c]

\* The worker thread is running (spawned and not yet returned or unwound).
WorkerAlive == handler \in {"init", "loop", "quit"}

\* ArrayQueue::pop applied n times: the first n entries leave, an empty
\* queue yields the default sample and stays empty.
PopN(q, n) == IF n >= Len(q) THEN <<>> ELSE SubSeq(q, n + 1, Len(q))

\* StereoSample::default() (derived): silence.
Silence == [left |-> 0, right |-> 0]
\* The n-th sample generate_audio makes: one value for both channels.
StereoSampleOf(n) == [left |-> n, right |-> n]

\* ArrayQueue::new(buffer_size)
ArrayQueueNew(buffer_size) == [capacity |-> buffer_size, items |-> <<>>]

\* ArrayQueue::force_push that drops the newest entry of a full queue.
ArrayQueue_force_push_DropNewest(q, s) ==
    [q EXCEPT !.items = IF Len(@) < q.capacity THEN Append(@, s)
                        ELSE Append(SubSeq(@, 1, Len(@) - 1), s)]

\* ArrayQueue::force_push that grows a full queue.
ArrayQueue_force_push_Grow(q, s) ==
    [q EXCEPT !.items = Append(@, s)]

\* ArrayQueue::force_push on [capacity, items]: appends, evicting the oldest
\* entry of a full queue; it never fails.
ArrayQueue_force_push(q, s) ==
    [q EXCEPT !.items = IF Len(@) < q.capacity THEN Append(@, s)
                        ELSE Append(Tail(@), s)]

\* ArrayQueue::pop: None (<<>>) on an empty queue, else Some(<<oldest>>).
ArrayQueue_pop(q) ==
    IF q.items = <<>> THEN [value |-> <<>>, queue |-> q]
    ELSE [value |-> <<Head(q.items)>>,
          queue |-> [q EXCEPT !.items = Tail(@)]]

\* Option::unwrap_or_default for Option<StereoSample>.
unwrap_or_default(option) == IF option = <<>> THEN Silence ELSE option[1]

\* force_push on the items of the queue of capacity Capacity.
force_push(q, s) ==
    ArrayQueue_force_push([capacity |-> Capacity, items |-> q], s).items

\* Frame counts a callback may be asked for.
FrameCounts == (0..MaxFrames) \cup {MinBatch - 1, MinBatch}

\* AudioGeneratorInput (generator.rs:7-22)
AudioGeneratorInput ==
    [op : {"Play", "Pause", "ChangeFrequency", "Quit"}, count : {0}]
        \cup [op : {"GenerateAudio"}, count : 1..MaxCount]
Input(op) == [op |-> op, count |-> 0]

\* f32 values, positive and normal: [m, e] is m * 2^e with 2^23 <= m < 2^24.
F32_440 == [m |-> 14417920, e |-> -15]
F32_1_01 == [m |-> 8472494, e |-> -23]

\* Round-to-nearest-even of hi + lo / 2^bits to an integer.
RoundEven(hi, lo, bits) ==
    IF lo > 2^(bits - 1) \/ (lo = 2^(bits - 1) /\ hi % 2 = 1)
    THEN hi + 1 ELSE hi

\* Renormalise a rounded mantissa that reached 2^24.
F32Norm(m, e) == IF m = 2^24 THEN [m |-> 2^23, e |-> e + 1] ELSE [m |-> m, e |-> e]

\* The f32 product x * y (IEEE 754 single precision, round to nearest even),
\* computed on 12-bit halves of the mantissas.
F32Mul(x, y) ==
    LET a == x.m \div 4096
        b == x.m % 4096
        c == y.m \div 4096
        d == y.m % 4096
        mid == a * d + b * c
        r == (mid % 2048) * 4096 + b * d
        hi == 2 * a * c + (mid \div 2048) + (r \div 2^23)
        lo == r % 2^23
    IN  IF hi < 2^24
        THEN F32Norm(RoundEven(hi, lo, 23), x.e + y.e + 23)
        ELSE F32Norm(RoundEven(hi \div 2, (hi % 2) * 2^23 + lo, 24),
                     x.e + y.e + 24)

\* A u64 as the set of the positions of its one bits.
U64Bits == 64
U64_0 == {}
U64_1 == {0}
\* x >> 1 and x << 1 on u64: the bit shifted out is lost.
U64Shr1(x) == {b - 1 : b \in x \ {0}}
U64Shl1(x) == {b + 1 : b \in {c \in x : c + 1 < U64Bits}}

\* Synthesizer::new_with(sample_rate) of synthesizer.rs.
new_with(rate) ==
    [sample_rate |-> rate, sample_clock |-> 0, frequency |-> F32_440,
     is_playing |-> TRUE, fake_delay |-> U64_1]

\* Sample rates a stream may report.
SampleRates == {44100, 48000}

\* generate_frame that pushes a sample whether playing or not.
generate_frame_AlwaysPush(q, clock, playing) ==
    <<force_push(q, clock), clock + 1>>

\* One iteration of the loop of Synthesizer::generate_audio: push the sample
\* made at the current sample_clock when playing, then tick. A queue entry
\* is the sample_clock its sample was made at. Yields <<queue, sample_clock>>.
generate_frame(q, clock, playing) ==
    <<IF playing THEN force_push(q, clock) ELSE q, clock + 1>>

\* Synthesizer::generate_audio(count, queue) of generator.rs and of
\* synthesizer.rs (the same loop around force_push and tick): count
\* iterations of the loop,
\* composed as the first half of the iterations followed by the rest (the
\* iterations the first half made are the ticks it added to the clock).
RECURSIVE generate_audio(_, _, _, _)
generate_audio(q, clock, playing, count) ==
    IF count = 0 THEN <<q, clock>>
    ELSE IF count = 1 THEN generate_frame(q, clock, playing)
    ELSE LET first == generate_audio(q, clock, playing, count \div 2)
         IN  generate_audio(first[1], first[2], playing,
                            count - (first[2] - clock))

\* ----------------------------------------------------------------- Init
\* The queue-level system at rest.
SinkIdle ==
    /\ sink_queue = ArrayQueueNew(1)
    /\ channel_count = 2
    /\ window = [pc |-> "idle", output |-> <<>>, frame |-> 0]
    /\ windows = 0
    /\ windowPulses = 0
    /\ pushCount = 0
    /\ pushedRun = <<>>
    /\ poppedNow = 0

\* The queue-level system for a queue of some capacity and an output device
\* of some channel count.
SinkDrawn ==
    /\ \E buffer_size \in 1..MaxCapacity :
          sink_queue = ArrayQueueNew(buffer_size)
    /\ channel_count \in 1..MaxChannels
    /\ window = [pc |-> "idle", output |-> <<>>, frame |-> 0]
    /\ windows = 0
    /\ windowPulses = 0
    /\ pushCount = 0
    /\ pushedRun = <<>>
    /\ poppedNow = 0

CoreInit ==
    /\ state = "Start"
    /\ handler = "none"
    /\ joined = FALSE
    /\ spawned = 0
    /\ app_input = <<>>
    /\ app_input_forward = <<>>
    /\ audio_stream_event = <<>>
    /\ events = <<>>
    /\ stream = "none"
    /\ queue = <<>>
    /\ callbacks = 0
    /\ handled = 0
    /\ audio_interface_sender = FALSE
    /\ windowClosed = FALSE
    /\ commands = 0
    /\ sent = <<>>
    /\ received = <<>>
    /\ pulses = <<>>
    /\ genPc = "start"
    /\ is_playing = TRUE
    /\ sample_clock = 0
    /\ frequency = F32_440
    /\ remaining = 0
    /\ generator_receiver = <<>>
    /\ needs_more_data = 0
    /\ client_receiver = <<>>
    /\ controls = 0
    /\ sinkCallbacks = 0
    /\ genSent = <<>>
    /\ genApplied = <<>>
    /\ pulsesHandled = 0
    /\ app_queue = FALSE
    /\ sample_rate = "None"
    /\ sourceMessages = 0
    /\ frequencyChanges = 0

\* AudioPrototype::default holds Synthesizer::new_with(0).
BaseInit == CoreInit /\ synthesizer = new_with(0)

Init == BaseInit /\ SinkIdle

\* The controller after some number of SourceIncreaseDelay messages, or after
\* a SourceDecreaseDelay: the delay is 0 or any single bit of the u64.
DelayInit ==
    /\ CoreInit
    /\ SinkIdle
    /\ \E delay \in {U64_0} \cup {{k} : k \in 0..(U64Bits - 1)} :
          synthesizer = [new_with(0) EXCEPT !.fake_delay = delay]

SinkInit == BaseInit /\ SinkDrawn

\* ------------------------------------------------- the bridge (unfold)
\* State::Start: create the channels, spawn the worker, yield Ready.
BridgeStart ==
    /\ UNCHANGED <<genVars, appVars, sinkVars>>
    /\ state = "Start"
    /\ handler' = "init"
    /\ spawned' = spawned + 1
    /\ events' = Append(events, ReadyEvent)
    /\ state' = "Ready"
    /\ UNCHANGED <<joined, app_input, app_input_forward, audio_stream_event,
                   stream, queue, callbacks, handled, audio_interface_sender,
                   windowClosed, commands, sent, received, pulses>>

\* BridgeForward forwarding the newest pending input instead of the oldest.
BridgeForward_Newest ==
    /\ UNCHANGED <<genVars, appVars, sinkVars>>
    /\ state = "Ready"
    /\ app_input # <<>>
    /\ app_input' = SubSeq(app_input, 1, Len(app_input) - 1)
    /\ app_input_forward' = IF WorkerAlive
                            THEN Append(app_input_forward,
                                        app_input[Len(app_input)])
                            ELSE app_input_forward
    /\ UNCHANGED <<state, handler, joined, spawned, audio_stream_event, events,
                   stream, queue, callbacks, handled, audio_interface_sender,
                   windowClosed, commands, sent, received, pulses>>

\* State::Ready, select index 0: forward one app input to the worker. The
\* send fails (and is ignored) when the worker's receiver no longer exists.
BridgeForward ==
    /\ UNCHANGED <<genVars, appVars, sinkVars>>
    /\ state = "Ready"
    /\ app_input # <<>>
    /\ app_input' = Tail(app_input)
    /\ app_input_forward' = IF WorkerAlive
                            THEN Append(app_input_forward, Head(app_input))
                            ELSE app_input_forward
    /\ UNCHANGED <<state, handler, joined, spawned, audio_stream_event, events,
                   stream, queue, callbacks, handled, audio_interface_sender,
                   windowClosed, commands, sent, received, pulses>>

\* BridgeRelay yielding the newest event of the channel instead of the oldest.
BridgeRelay_Newest ==
    /\ UNCHANGED <<genVars, appVars, sinkVars>>
    /\ state = "Ready"
    /\ audio_stream_event # <<>>
    /\ Head(audio_stream_event).type # "Quit"
    /\ audio_stream_event' =
           SubSeq(audio_stream_event, 1, Len(audio_stream_event) - 1)
    /\ events' = Append(events, audio_stream_event[Len(audio_stream_event)])
    /\ state' = "Ready"
    /\ UNCHANGED <<handler, joined, spawned, app_input, app_input_forward,
                   stream, queue, callbacks, handled, audio_interface_sender,
                   windowClosed, commands, sent, received, pulses>>

\* State::Ready, select index 1, arm `_`: yield the event, stay in Ready.
BridgeRelay ==
    /\ UNCHANGED <<genVars, appVars, sinkVars>>
    /\ state = "Ready"
    /\ audio_stream_event # <<>>
    /\ Head(audio_stream_event).type # "Quit"
    /\ audio_stream_event' = Tail(audio_stream_event)
    /\ events' = Append(events, Head(audio_stream_event))
    /\ state' = "Ready"
    /\ UNCHANGED <<handler, joined, spawned, app_input, app_input_forward,
                   stream, queue, callbacks, handled, audio_interface_sender,
                   windowClosed, commands, sent, received, pulses>>

\* BridgeWorkerQuit returning State::Idle directly, skipping Ending.
BridgeWorkerQuit_SkipEnding ==
    /\ UNCHANGED <<genVars, appVars, sinkVars>>
    /\ state = "Ready"
    /\ audio_stream_event # <<>>
    /\ Head(audio_stream_event).type = "Quit"
    /\ audio_stream_event' = <<>>
    /\ app_input' = <<>>
    /\ events' = Append(events, QuitEvent)
    /\ state' = "Idle"
    /\ UNCHANGED <<handler, joined, spawned, app_input_forward, stream, queue,
                   callbacks, handled, audio_interface_sender, windowClosed,
                   commands, sent, received, pulses>>

\* State::Ready, select index 1, arm AudioInterfaceEvent::Quit: yield Quit
\* and move to Ending; the receivers held by Ready are dropped.
BridgeWorkerQuit ==
    /\ UNCHANGED <<genVars, appVars, sinkVars>>
    /\ state = "Ready"
    /\ audio_stream_event # <<>>
    /\ Head(audio_stream_event).type = "Quit"
    /\ audio_stream_event' = <<>>
    /\ app_input' = <<>>
    /\ events' = Append(events, QuitEvent)
    /\ state' = "Ending"
    /\ UNCHANGED <<handler, joined, spawned, app_input_forward, stream, queue,
                   callbacks, handled, audio_interface_sender, windowClosed,
                   commands, sent, received, pulses>>

\* BridgeEnding that does not wait for the thread (join omitted).
BridgeEnding_NoJoin ==
    /\ UNCHANGED <<genVars, appVars, sinkVars>>
    /\ state = "Ending"
    /\ joined' = TRUE
    /\ state' = "Idle"
    /\ UNCHANGED <<handler, spawned, app_input, app_input_forward,
                   audio_stream_event, events, stream, queue, callbacks,
                   handled, audio_interface_sender, windowClosed, commands,
                   sent, received, pulses>>

\* State::Ending: handler.join() blocks until the thread has ended, then
\* (None, State::Idle).
BridgeEnding ==
    /\ UNCHANGED <<genVars, appVars, sinkVars>>
    /\ state = "Ending"
    /\ handler \in {"done", "panic"}
    /\ joined' = TRUE
    /\ state' = "Idle"
    /\ UNCHANGED <<handler, spawned, app_input, app_input_forward,
                   audio_stream_event, events, stream, queue, callbacks,
                   handled, audio_interface_sender, windowClosed, commands,
                   sent, received, pulses>>

\* State::Idle awaits future::pending() and never completes: no action.

\* ------------------------------------------------- the worker thread
\* WorkerCreate that reports a failed stream creation with a Quit event.
WorkerCreate_ReportsFailure ==
    /\ UNCHANGED <<genVars, appVars, sinkVars>>
    /\ handler = "init"
    /\ \E ok \in BOOLEAN :
        IF ok
        THEN /\ handler' = "loop"
             /\ \E s \in {"playing", "paused"} : stream' = s
             /\ UNCHANGED <<app_input_forward, audio_stream_event>>
        ELSE /\ handler' = "done"
             /\ stream' = "failed"
             /\ app_input_forward' = <<>>
             /\ audio_stream_event' = Append(audio_stream_event, QuitEvent)
    /\ UNCHANGED <<state, joined, spawned, app_input, events, queue, callbacks,
                   handled, audio_interface_sender, windowClosed, commands,
                   sent, received, pulses>>

\* AudioStream::create_default_stream: Err when there is no default output
\* device or the stream cannot be built, and then the thread returns at
\* once. Whether a built stream runs before play() is platform dependent.
WorkerCreate ==
    /\ UNCHANGED <<genVars, appVars, sinkVars>>
    /\ handler = "init"
    /\ \E ok \in BOOLEAN :
        IF ok
        THEN /\ handler' = "loop"
             /\ \E s \in {"playing", "paused"} : stream' = s
             /\ UNCHANGED app_input_forward
        ELSE /\ handler' = "done"
             /\ stream' = "failed"
             /\ app_input_forward' = <<>>
    /\ UNCHANGED <<state, joined, spawned, app_input, audio_stream_event,
                   events, queue, callbacks, handled, audio_interface_sender,
                   windowClosed, commands, sent, received, pulses>>

\* AudioStream::quit: stops the stream and signals the end of the session.
AudioStreamQuit ==
    /\ stream' = "closed"
    /\ audio_stream_event' = Append(audio_stream_event, QuitEvent)

\* WorkerRecv that takes SetBufferSize as a no-op and keeps looping.
WorkerRecv_SetBufferSizeIgnored ==
    /\ UNCHANGED <<genVars, appVars, sinkVars>>
    /\ handler = "loop"
    /\ app_input_forward # <<>>
    /\ received' = Append(received, Head(app_input_forward))
    /\ CASE Head(app_input_forward) = "SetBufferSize" ->
              /\ app_input_forward' = Tail(app_input_forward)
              /\ UNCHANGED <<handler, stream, audio_stream_event>>
         [] Head(app_input_forward) = "Play" ->
              /\ stream' = "playing"
              /\ app_input_forward' = Tail(app_input_forward)
              /\ UNCHANGED <<handler, audio_stream_event>>
         [] Head(app_input_forward) = "Pause" ->
              /\ stream' = "paused"
              /\ app_input_forward' = Tail(app_input_forward)
              /\ UNCHANGED <<handler, audio_stream_event>>
         [] Head(app_input_forward) = "Quit" ->
              /\ AudioStreamQuit
              /\ handler' = "quit"
              /\ app_input_forward' = Tail(app_input_forward)
    /\ UNCHANGED <<state, joined, spawned, app_input, events, queue, callbacks,
                   handled, audio_interface_sender, windowClosed, commands,
                   sent, pulses>>

\* One iteration of the worker loop: recv() one forwarded input and apply it.
WorkerRecv ==
    /\ UNCHANGED <<genVars, appVars, sinkVars>>
    /\ handler = "loop"
    /\ app_input_forward # <<>>
    /\ received' = Append(received, Head(app_input_forward))
    /\ CASE Head(app_input_forward) = "SetBufferSize" ->
              \* todo!() panics: the thread unwinds and drops what it owns
              /\ handler' = "panic"
              /\ stream' = "closed"
              /\ app_input_forward' = <<>>
              /\ UNCHANGED audio_stream_event
         [] Head(app_input_forward) = "Play" ->
              /\ stream' = "playing"
              /\ app_input_forward' = Tail(app_input_forward)
              /\ UNCHANGED <<handler, audio_stream_event>>
         [] Head(app_input_forward) = "Pause" ->
              /\ stream' = "paused"
              /\ app_input_forward' = Tail(app_input_forward)
              /\ UNCHANGED <<handler, audio_stream_event>>
         [] Head(app_input_forward) = "Quit" ->
              /\ AudioStreamQuit
              /\ handler' = "quit"
              /\ app_input_forward' = Tail(app_input_forward)
    /\ UNCHANGED <<state, joined, spawned, app_input, events, queue, callbacks,
                   handled, audio_interface_sender, windowClosed, commands,
                   sent, pulses>>

\* After `break` the closure returns: the stream and the receiver are dropped.
WorkerExit ==
    /\ UNCHANGED <<genVars, appVars, sinkVars>>
    /\ handler = "quit"
    /\ handler' = "done"
    /\ stream' = "closed"
    /\ app_input_forward' = <<>>
    /\ UNCHANGED <<state, joined, spawned, app_input, audio_stream_event,
                   events, queue, callbacks, handled, audio_interface_sender,
                   windowClosed, commands, sent, received, pulses>>

\* ------------------------------------------------- the audio callback
\* on_window with the sender wired by the subscription: pop one sample per
\* frame, then send one pulse on the worker-event channel. The device has
\* two or more channels (WindowFrame has the one-channel case).
StreamCallback ==
    /\ UNCHANGED <<genVars, appVars, sinkVars>>
    /\ stream = "playing"
    /\ callbacks < MaxCallbacks
    /\ \E frames \in FrameCounts : queue' = PopN(queue, frames)
    /\ callbacks' = callbacks + 1
    /\ audio_stream_event' =
           Append(audio_stream_event, NeedsAudioEvent(callbacks + 1))
    /\ pulses' = Append(pulses, NeedsAudioEvent(callbacks + 1))
    /\ UNCHANGED <<state, handler, joined, spawned, app_input,
                   app_input_forward, events, stream, handled,
                   audio_interface_sender, windowClosed, commands, sent,
                   received>>

\* ------------------------------------------------- the controller
\* send_to_audio_interface: a send only when the handle is held; it is
\* accepted while the bridge still owns app_input_receiver, else ignored.
SendAccepted == audio_interface_sender /\ state = "Ready"

send_to_audio_interface(input) ==
    /\ app_input' = IF SendAccepted THEN Append(app_input, input) ELSE app_input
    /\ sent' = IF SendAccepted THEN Append(sent, input) ELSE sent

\* Message::StreamPlay
ControllerStreamPlay ==
    /\ UNCHANGED <<genVars, appVars, sinkVars>>
    /\ ~windowClosed
    /\ commands < MaxCommands
    /\ commands' = commands + 1
    /\ send_to_audio_interface("Play")
    /\ UNCHANGED <<state, handler, joined, spawned, app_input_forward,
                   audio_stream_event, events, stream, queue, callbacks,
                   handled, audio_interface_sender, windowClosed, received,
                   pulses>>

\* Message::StreamPause
ControllerStreamPause ==
    /\ UNCHANGED <<genVars, appVars, sinkVars>>
    /\ ~windowClosed
    /\ commands < MaxCommands
    /\ commands' = commands + 1
    /\ send_to_audio_interface("Pause")
    /\ UNCHANGED <<state, handler, joined, spawned, app_input_forward,
                   audio_stream_event, events, stream, queue, callbacks,
                   handled, audio_interface_sender, windowClosed, received,
                   pulses>>

\* ControllerClose that closes the window without sending Quit.
ControllerClose_NoQuit ==
    /\ UNCHANGED <<genVars, appVars, sinkVars>>
    /\ ~windowClosed
    /\ windowClosed' = TRUE
    /\ UNCHANGED <<state, handler, joined, spawned, app_input,
                   app_input_forward, audio_stream_event, events, stream,
                   queue, callbacks, handled, audio_interface_sender, commands,
                   sent, received, pulses>>

\* handle_system_event on CloseRequested: send Quit, return window::close().
ControllerClose ==
    /\ UNCHANGED <<genVars, appVars, sinkVars>>
    /\ ~windowClosed
    /\ send_to_audio_interface("Quit")
    /\ windowClosed' = TRUE
    /\ UNCHANGED <<state, handler, joined, spawned, app_input_forward,
                   audio_stream_event, events, stream, queue, callbacks,
                   handled, audio_interface_sender, commands, received,
                   pulses>>

\* A holder of the control handle sends AudioInterfaceInput::SetBufferSize(n)
\* (the worker ignores n). The controller of main.rs never does.
HandleSetBufferSize ==
    /\ UNCHANGED <<genVars, appVars, sinkVars>>
    /\ ~windowClosed
    /\ commands < MaxCommands
    /\ commands' = commands + 1
    /\ send_to_audio_interface("SetBufferSize")
    /\ UNCHANGED <<state, handler, joined, spawned, app_input_forward,
                   audio_stream_event, events, stream, queue, callbacks,
                   handled, audio_interface_sender, windowClosed, received,
                   pulses>>

\* audio_interface_update on the next yielded event. Ready stores the
\* handle; Reset stores the rate and the queue and makes a new Synthesizer;
\* NeedsAudio(when, count) generates count frames into the queue when one is
\* held (the whole call, sleep included, is one step of the event loop);
\* Quit is only acknowledged.
ControllerEvent ==
    /\ UNCHANGED <<genVars, sinkVars>>
    /\ handled < Len(events)
    /\ handled' = handled + 1
    /\ LET event == events[handled + 1] IN
         CASE event.type = "Ready" ->
                /\ audio_interface_sender' = TRUE
                /\ UNCHANGED <<synthesizer, app_queue, sample_rate, queue,
                               frequencyChanges>>
           [] event.type = "Reset" ->
                /\ sample_rate' = event.sample_rate
                /\ app_queue' = TRUE
                /\ synthesizer' = new_with(event.sample_rate)
                /\ frequencyChanges' = 0
                /\ UNCHANGED <<audio_interface_sender, queue>>
           [] event.type = "NeedsAudio" ->
                /\ IF app_queue
                   THEN LET r == generate_audio(queue, synthesizer.sample_clock,
                                               synthesizer.is_playing,
                                               event.count)
                        IN  /\ queue' = r[1]
                            /\ synthesizer' =
                                   [synthesizer EXCEPT !.sample_clock = r[2]]
                   ELSE UNCHANGED <<synthesizer, queue>>
                /\ UNCHANGED <<audio_interface_sender, app_queue, sample_rate,
                               frequencyChanges>>
           [] event.type = "Quit" ->
                UNCHANGED <<audio_interface_sender, synthesizer, app_queue,
                            sample_rate, queue, frequencyChanges>>
    /\ UNCHANGED <<state, handler, joined, spawned, app_input,
                   app_input_forward, audio_stream_event, events, stream,
                   callbacks, windowClosed, commands, sent, received,
                   pulses, sourceMessages>>

\* What a Source* message leaves alone, and the bound on their number.
SourceFrame ==
    /\ sourceMessages < MaxSourceMessages
    /\ sourceMessages' = sourceMessages + 1
    /\ UNCHANGED <<bridgeVars, genVars, sinkVars, queue, app_queue,
                   sample_rate>>

\* Message::SourceChangeFrequency
SourceChangeFrequency ==
    /\ SourceFrame
    /\ synthesizer' = [synthesizer EXCEPT
                          !.frequency = F32Mul(synthesizer.frequency, F32_1_01)]
    /\ frequencyChanges' = frequencyChanges + 1

\* SourcePlay that also puts the frequency back to 440.0.
SourcePlay_Retunes ==
    /\ SourceFrame
    /\ synthesizer' = [synthesizer EXCEPT !.is_playing = TRUE,
                                          !.frequency = F32_440]
    /\ UNCHANGED frequencyChanges

\* Message::SourcePlay
SourcePlay ==
    /\ SourceFrame
    /\ synthesizer' = [synthesizer EXCEPT !.is_playing = TRUE]
    /\ UNCHANGED frequencyChanges

\* SourcePause that also rewinds the clock.
SourcePause_Rewinds ==
    /\ SourceFrame
    /\ synthesizer' = [synthesizer EXCEPT !.is_playing = FALSE,
                                          !.sample_clock = 0]
    /\ UNCHANGED frequencyChanges

\* Message::SourcePause
SourcePause ==
    /\ SourceFrame
    /\ synthesizer' = [synthesizer EXCEPT !.is_playing = FALSE]
    /\ UNCHANGED frequencyChanges

\* Message::SourceDecreaseDelay
SourceDecreaseDelay ==
    /\ SourceFrame
    /\ synthesizer' = [synthesizer EXCEPT
                          !.fake_delay = U64Shr1(synthesizer.fake_delay)]
    /\ UNCHANGED frequencyChanges

\* Message::SourceIncreaseDelay
SourceIncreaseDelay ==
    /\ SourceFrame
    /\ synthesizer' = [synthesizer EXCEPT
                          !.fake_delay = IF synthesizer.fake_delay = U64_0
                                         THEN U64_1
                                         ELSE U64Shl1(synthesizer.fake_delay)]
    /\ UNCHANGED frequencyChanges

\* The stream of the variant that reports to the controller: once built it
\* announces Reset(sample_rate, queue).
StreamReset ==
    /\ UNCHANGED <<genVars, appVars, sinkVars>>
    /\ \A i \in 1..Len(events) : events[i].type # "Reset"
    /\ \E rate \in SampleRates : events' = Append(events, ResetEvent(rate))
    /\ UNCHANGED <<state, handler, joined, spawned, app_input,
                   app_input_forward, audio_stream_event, stream, queue,
                   callbacks, handled, audio_interface_sender, windowClosed,
                   commands, sent, received, pulses>>

\* The callback of that variant: pop one sample per frame, then announce
\* NeedsAudio(now, count) with the shortfall it leaves behind as the count.
StreamCallbackCount ==
    /\ UNCHANGED <<genVars, appVars, sinkVars>>
    /\ \E i \in 1..Len(events) : events[i].type = "Reset"
    /\ callbacks < MaxCallbacks
    /\ callbacks' = callbacks + 1
    /\ \E frames \in FrameCounts :
          /\ queue' = PopN(queue, frames)
          /\ events' = Append(events,
                 NeedsAudioCount(callbacks + 1, Capacity - Len(queue')))
    /\ UNCHANGED <<state, handler, joined, spawned, app_input,
                   app_input_forward, audio_stream_event, stream, handled,
                   audio_interface_sender, windowClosed, commands, sent,
                   received, pulses>>

\* ------------------------------------------------- the generator thread
\* GenStart that does not announce the initial frequency.
GenStart_Silent ==
    /\ genPc = "start"
    /\ genPc' = "loop"
    /\ UNCHANGED <<is_playing, sample_clock, frequency, remaining,
                   generator_receiver, needs_more_data, client_receiver,
                   controls, sinkCallbacks, genSent, genApplied,
                   pulsesHandled, queue>>
    /\ UNCHANGED <<bridgeVars, appVars, sinkVars>>

\* Thread start: Synthesizer::new_with, then send_frequency of the initial
\* frequency.
GenStart ==
    /\ genPc = "start"
    /\ client_receiver' = Append(client_receiver, frequency)
    /\ genPc' = "loop"
    /\ UNCHANGED <<is_playing, sample_clock, frequency, remaining,
                   generator_receiver, needs_more_data, controls,
                   sinkCallbacks, genSent, genApplied, pulsesHandled, queue>>
    /\ UNCHANGED <<bridgeVars, appVars, sinkVars>>

\* GenControl whose Quit arm does not break out of the loop.
GenControl_QuitIgnored ==
    /\ genPc = "loop"
    /\ generator_receiver # <<>>
    /\ genApplied' = Append(genApplied, Head(generator_receiver))
    /\ generator_receiver' = Tail(generator_receiver)
    /\ CASE Head(generator_receiver).op = "Play" ->
              /\ is_playing' = TRUE
              /\ UNCHANGED <<genPc, frequency, client_receiver, remaining>>
         [] Head(generator_receiver).op = "Pause" ->
              /\ is_playing' = FALSE
              /\ UNCHANGED <<genPc, frequency, client_receiver, remaining>>
         [] Head(generator_receiver).op = "ChangeFrequency" ->
              /\ frequency' = F32Mul(frequency, F32_1_01)
              /\ client_receiver' = Append(client_receiver, frequency')
              /\ UNCHANGED <<genPc, is_playing, remaining>>
         [] Head(generator_receiver).op = "GenerateAudio" ->
              /\ remaining' = Head(generator_receiver).count
              /\ genPc' = "generating"
              /\ UNCHANGED <<is_playing, frequency, client_receiver>>
         [] Head(generator_receiver).op = "Quit" ->
              UNCHANGED <<genPc, is_playing, frequency, client_receiver,
                          remaining>>
    /\ UNCHANGED <<sample_clock, controls, sinkCallbacks, genSent,
                   pulsesHandled, queue, needs_more_data>>
    /\ UNCHANGED <<bridgeVars, appVars, sinkVars>>

\* Select index 0: try_recv one control message and apply it. Quit breaks
\* out of the loop: the thread ends and its receivers are dropped.
GenControl ==
    /\ genPc = "loop"
    /\ generator_receiver # <<>>
    /\ genApplied' = Append(genApplied, Head(generator_receiver))
    /\ CASE Head(generator_receiver).op = "Play" ->
              /\ is_playing' = TRUE
              /\ generator_receiver' = Tail(generator_receiver)
              /\ UNCHANGED <<genPc, frequency, client_receiver, remaining,
                             needs_more_data>>
         [] Head(generator_receiver).op = "Pause" ->
              /\ is_playing' = FALSE
              /\ generator_receiver' = Tail(generator_receiver)
              /\ UNCHANGED <<genPc, frequency, client_receiver, remaining,
                             needs_more_data>>
         [] Head(generator_receiver).op = "ChangeFrequency" ->
              /\ frequency' = F32Mul(frequency, F32_1_01)
              /\ client_receiver' = Append(client_receiver, frequency')
              /\ generator_receiver' = Tail(generator_receiver)
              /\ UNCHANGED <<genPc, is_playing, remaining, needs_more_data>>
         [] Head(generator_receiver).op = "GenerateAudio" ->
              /\ remaining' = Head(generator_receiver).count
              /\ genPc' = "generating"
              /\ generator_receiver' = Tail(generator_receiver)
              /\ UNCHANGED <<is_playing, frequency, client_receiver,
                             needs_more_data>>
         [] Head(generator_receiver).op = "Quit" ->
              /\ genPc' = "done"
              /\ generator_receiver' = <<>>
              /\ needs_more_data' = 0
              /\ UNCHANGED <<is_playing, frequency, client_receiver, remaining>>
    /\ UNCHANGED <<sample_clock, controls, sinkCallbacks, genSent,
                   pulsesHandled, queue>>
    /\ UNCHANGED <<bridgeVars, appVars, sinkVars>>

\* GenPulse with the threshold test written `shortfall > 64`.
GenPulse_Above ==
    /\ genPc = "loop"
    /\ needs_more_data > 0
    /\ needs_more_data' = needs_more_data - 1
    /\ pulsesHandled' = pulsesHandled + 1
    /\ LET shortfall == Capacity - Len(queue) IN
         IF shortfall > MinBatch
         THEN remaining' = shortfall /\ genPc' = "generating"
         ELSE UNCHANGED <<remaining, genPc>>
    /\ UNCHANGED <<is_playing, sample_clock, frequency, generator_receiver,
                   client_receiver, controls, sinkCallbacks, genSent,
                   genApplied, queue>>
    /\ UNCHANGED <<bridgeVars, appVars, sinkVars>>

\* GenPulse that asks for a whole queue of frames whatever the length.
GenPulse_WholeQueue ==
    /\ genPc = "loop"
    /\ needs_more_data > 0
    /\ needs_more_data' = needs_more_data - 1
    /\ pulsesHandled' = pulsesHandled + 1
    /\ LET shortfall == Capacity - Len(queue) IN
         IF shortfall >= MinBatch
         THEN remaining' = Capacity /\ genPc' = "generating"
         ELSE UNCHANGED <<remaining, genPc>>
    /\ UNCHANGED <<is_playing, sample_clock, frequency, generator_receiver,
                   client_receiver, controls, sinkCallbacks, genSent,
                   genApplied, queue>>
    /\ UNCHANGED <<bridgeVars, appVars, sinkVars>>

\* Select index 1: try_recv one pulse, measure the shortfall and start a
\* generation of that many frames when it is at least MinBatch.
GenPulse ==
    /\ genPc = "loop"
    /\ needs_more_data > 0
    /\ needs_more_data' = needs_more_data - 1
    /\ pulsesHandled' = pulsesHandled + 1
    /\ LET shortfall == Capacity - Len(queue) IN
         IF shortfall >= MinBatch
         THEN remaining' = shortfall /\ genPc' = "generating"
         ELSE UNCHANGED <<remaining, genPc>>
    /\ UNCHANGED <<is_playing, sample_clock, frequency, generator_receiver,
                   client_receiver, controls, sinkCallbacks, genSent,
                   genApplied, queue>>
    /\ UNCHANGED <<bridgeVars, appVars, sinkVars>>

\* GenBatch whose clock stands still while paused.
GenBatch_ClockOnPush ==
    /\ genPc = "generating"
    /\ LET r == generate_audio(queue, sample_clock, is_playing, remaining) IN
         /\ queue' = r[1]
         /\ sample_clock' = IF is_playing THEN r[2] ELSE sample_clock
    /\ remaining' = 0
    /\ genPc' = "loop"
    /\ UNCHANGED <<is_playing, frequency, generator_receiver, needs_more_data,
                   client_receiver, controls, sinkCallbacks, genSent,
                   genApplied, pulsesHandled>>
    /\ UNCHANGED <<bridgeVars, appVars, sinkVars>>

\* The generate_audio call started by GenControl or GenPulse runs to its end
\* (the callback may have popped between the measurement and the pushes).
GenBatch ==
    /\ genPc = "generating"
    /\ LET r == generate_audio(queue, sample_clock, is_playing, remaining) IN
         /\ queue' = r[1]
         /\ sample_clock' = r[2]
    /\ remaining' = 0
    /\ genPc' = "loop"
    /\ UNCHANGED <<is_playing, frequency, generator_receiver, needs_more_data,
                   client_receiver, controls, sinkCallbacks, genSent,
                   genApplied, pulsesHandled>>
    /\ UNCHANGED <<bridgeVars, appVars, sinkVars>>

\* One iteration of the loop of the generate_audio call in progress; the
\* call returns after the last one.
GenPush ==
    /\ genPc = "generating"
    /\ remaining > 0
    /\ LET r == generate_frame(queue, sample_clock, is_playing) IN
         /\ queue' = r[1]
         /\ sample_clock' = r[2]
    /\ remaining' = remaining - 1
    /\ genPc' = IF remaining = 1 THEN "loop" ELSE "generating"
    /\ UNCHANGED <<is_playing, frequency, generator_receiver, needs_more_data,
                   client_receiver, controls, sinkCallbacks, genSent,
                   genApplied, pulsesHandled>>
    /\ UNCHANGED <<bridgeVars, appVars, sinkVars>>

\* ------------------------------------------------- the generator's client
\* GeneratorSend whose message is kept for a receiver that is gone.
GeneratorSend_Keeps(input) ==
    /\ generator_receiver' = Append(generator_receiver, input)
    /\ genSent' = Append(genSent, input)

\* self.sender.send(input): accepted while the thread holds the receiver,
\* else the error is ignored.
GeneratorSend(input) ==
    /\ generator_receiver' = IF genPc # "done"
                             THEN Append(generator_receiver, input)
                             ELSE generator_receiver
    /\ genSent' = IF genPc # "done" THEN Append(genSent, input) ELSE genSent

\* What a client call leaves alone, and the bound on the number of calls.
ClientFrame ==
    /\ controls < MaxControls
    /\ controls' = controls + 1
    /\ UNCHANGED <<genPc, is_playing, sample_clock, frequency, remaining,
                   needs_more_data, client_receiver, sinkCallbacks, genApplied,
                   pulsesHandled, queue>>
    /\ UNCHANGED <<bridgeVars, appVars, sinkVars>>

\* AudioGenerator::change_frequency
ClientChangeFrequency ==
    /\ ClientFrame
    /\ GeneratorSend(Input("ChangeFrequency"))

\* AudioGenerator::play
ClientPlay ==
    /\ ClientFrame
    /\ GeneratorSend(Input("Play"))

\* AudioGenerator::pause
ClientPause ==
    /\ ClientFrame
    /\ GeneratorSend(Input("Pause"))

\* AudioGenerator::send(AudioGeneratorInput::GenerateAudio(n))
ClientSendGenerateAudio ==
    /\ ClientFrame
    /\ \E n \in 1..MaxCount :
          GeneratorSend([op |-> "GenerateAudio", count |-> n])

\* AudioGenerator::send(AudioGeneratorInput::Quit)
ClientSendQuit ==
    /\ ClientFrame
    /\ GeneratorSend(Input("Quit"))

\* ------------------------------------------------- the audio callback
\* on_window with the sender wired to the generator: pop one sample per
\* frame, then send one pulse (ignored when the generator has ended). The
\* device has two or more channels (WindowFrame has the one-channel case).
SinkCallback ==
    /\ sinkCallbacks < MaxSinkCallbacks
    /\ sinkCallbacks' = sinkCallbacks + 1
    /\ \E frames \in FrameCounts : queue' = PopN(queue, frames)
    /\ needs_more_data' = IF genPc # "done"
                          THEN needs_more_data + 1 ELSE needs_more_data
    /\ UNCHANGED <<genPc, is_playing, sample_clock, frequency, remaining,
                   generator_receiver, client_receiver, controls, genSent,
                   genApplied, pulsesHandled>>
    /\ UNCHANGED <<bridgeVars, appVars, sinkVars>>

\* ------------------------------------------------- the callback, step by step
\* The driver calls on_window (sender wired to the generator) with an output
\* buffer of some number of frames.
SinkWindowStart ==
    /\ window.pc = "idle"
    /\ sinkCallbacks < MaxSinkCallbacks
    /\ sinkCallbacks' = sinkCallbacks + 1
    /\ \E frames \in FrameCounts :
          window' = [pc |-> "frames",
                     output |-> [i \in 1..(frames * channel_count) |->
                                    "unwritten"],
                     frame |-> 0]
    /\ UNCHANGED <<genPc, is_playing, sample_clock, frequency, remaining,
                   generator_receiver, needs_more_data, client_receiver,
                   controls, genSent, genApplied, pulsesHandled, queue>>
    /\ UNCHANGED <<sink_queue, channel_count, windows, windowPulses, pushCount,
                   pushedRun, poppedNow>>
    /\ UNCHANGED <<bridgeVars, appVars>>

\* One iteration of the loop of on_window on the generator's queue: pop a
\* sample (silence when there is none) and write both slots of the frame.
\* A slot keeps the fact that it was written; WindowFrame has the values.
SinkWindowFrame ==
    /\ window.pc = "frames"
    /\ window.frame < Len(window.output) \div channel_count
    /\ LET popped == ArrayQueue_pop([capacity |-> Capacity, items |-> queue])
           base == window.frame * channel_count
       IN  /\ queue' = popped.queue.items
           /\ window' = [window EXCEPT
                            !.output = [@ EXCEPT ![base + 1] = "written",
                                                 ![base + 2] = "written"],
                            !.frame = @ + 1]
    /\ UNCHANGED <<genPc, is_playing, sample_clock, frequency, remaining,
                   generator_receiver, needs_more_data, client_receiver,
                   controls, sinkCallbacks, genSent, genApplied, pulsesHandled>>
    /\ UNCHANGED <<sink_queue, channel_count, windows, windowPulses, pushCount,
                   pushedRun, poppedNow>>
    /\ UNCHANGED <<bridgeVars, appVars>>

\* After the loop on_window sends one pulse (ignored when the generator has
\* ended) and returns.
SinkWindowPulse ==
    /\ window.pc = "frames"
    /\ window.frame = Len(window.output) \div channel_count
    /\ window' = [window EXCEPT !.pc = "idle"]
    /\ needs_more_data' = IF genPc # "done"
                          THEN needs_more_data + 1 ELSE needs_more_data
    /\ UNCHANGED <<genPc, is_playing, sample_clock, frequency, remaining,
                   generator_receiver, client_receiver, controls,
                   sinkCallbacks, genSent, genApplied, pulsesHandled, queue>>
    /\ UNCHANGED <<sink_queue, channel_count, windows, windowPulses, pushCount,
                   pushedRun, poppedNow>>
    /\ UNCHANGED <<bridgeVars, appVars>>

\* ------------------------------------------------- the queue, step by step
\* One iteration of the loop of generate_audio while playing: force_push of
\* the next sample.
QueuePush ==
    /\ pushCount < MaxPushes
    /\ pushCount' = pushCount + 1
    /\ sink_queue' =
           ArrayQueue_force_push(sink_queue, StereoSampleOf(pushCount + 1))
    /\ pushedRun' = Append(pushedRun, StereoSampleOf(pushCount + 1))
    /\ UNCHANGED <<channel_count, window, windows, windowPulses, poppedNow>>
    /\ UNCHANGED <<bridgeVars, genVars, appVars, queue>>

\* The driver calls on_window with an output buffer of some length.
\* chunks_exact_mut(channel_count) yields output.len() / channel_count frames.
WindowStart ==
    /\ window.pc = "idle"
    /\ windows < MaxWindows
    /\ windows' = windows + 1
    /\ \E len \in 0..MaxOutputLen :
          window' = [pc |-> "frames", output |-> [i \in 1..len |-> "unwritten"],
                     frame |-> 0]
    /\ poppedNow' = 0
    /\ UNCHANGED <<sink_queue, channel_count, windowPulses, pushCount,
                   pushedRun>>
    /\ UNCHANGED <<bridgeVars, genVars, appVars, queue>>

\* WindowFrame that waits for a sample when the queue is empty.
WindowFrame_Waits ==
    /\ window.pc = "frames"
    /\ window.frame < Len(window.output) \div channel_count
    /\ sink_queue.items # <<>>
    /\ LET popped == ArrayQueue_pop(sink_queue)
           sample == unwrap_or_default(popped.value)
           base == window.frame * channel_count
           left == [window.output EXCEPT ![base + 1] = sample.left]
       IN  /\ sink_queue' = popped.queue
           /\ IF channel_count > 0
              THEN IF 1 < channel_count
                   THEN window' = [window EXCEPT
                                     !.output = [left EXCEPT
                                                   ![base + 2] = sample.right],
                                     !.frame = @ + 1]
                   ELSE window' = [window EXCEPT !.output = left,
                                                 !.pc = "panicked"]
              ELSE window' = [window EXCEPT !.output = left, !.frame = @ + 1]
    /\ poppedNow' = poppedNow + 1
    /\ pushedRun' = <<>>
    /\ UNCHANGED <<channel_count, windows, windowPulses, pushCount>>
    /\ UNCHANGED <<bridgeVars, genVars, appVars, queue>>

\* One iteration of the loop of on_window: pop a sample (silence when there
\* is none), write frame[0], and when channel_count > 0 write frame[1]. The
\* frame is a slice of channel_count slots: index 1 is out of bounds for a
\* one-slot frame and the callback panics there.
WindowFrame ==
    /\ window.pc = "frames"
    /\ window.frame < Len(window.output) \div channel_count
    /\ LET popped == ArrayQueue_pop(sink_queue)
           sample == unwrap_or_default(popped.value)
           base == window.frame * channel_count
           left == [window.output EXCEPT ![base + 1] = sample.left]
       IN  /\ sink_queue' = popped.queue
           /\ IF channel_count > 0
              THEN IF 1 < channel_count
                   THEN window' = [window EXCEPT
                                     !.output = [left EXCEPT
                                                   ![base + 2] = sample.right],
                                     !.frame = @ + 1]
                   ELSE window' = [window EXCEPT !.output = left,
                                                 !.pc = "panicked"]
              ELSE window' = [window EXCEPT !.output = left, !.frame = @ + 1]
    /\ poppedNow' = poppedNow + 1
    /\ pushedRun' = <<>>
    /\ UNCHANGED <<channel_count, windows, windowPulses, pushCount>>
    /\ UNCHANGED <<bridgeVars, genVars, appVars, queue>>

\* After the loop on_window sends one pulse and returns.
WindowPulse ==
    /\ window.pc = "frames"
    /\ window.frame = Len(window.output) \div channel_count
    /\ windowPulses' = windowPulses + 1
    /\ window' = [window EXCEPT !.pc = "idle"]
    /\ UNCHANGED <<sink_queue, channel_count, windows, pushCount, pushedRun,
                   poppedNow>>
    /\ UNCHANGED <<bridgeVars, genVars, appVars, queue>>

\* ------------------------------------------------- specifications
Next ==
    \/ BridgeStart
    \/ BridgeForward
    \/ BridgeRelay
    \/ BridgeWorkerQuit
    \/ BridgeEnding
    \/ WorkerCreate
    \/ WorkerRecv
    \/ WorkerExit
    \/ StreamCallback
    \/ ControllerStreamPlay
    \/ ControllerStreamPause
    \/ ControllerClose
    \/ ControllerEvent

Spec == Init /\ [][Next]_vars

\* The bridge future is polled by the executor and the worker is an OS
\* thread: each keeps taking its enabled steps.
Fairness ==
    /\ WF_vars(BridgeStart)
    /\ WF_vars(BridgeForward)
    /\ WF_vars(BridgeRelay)
    /\ WF_vars(BridgeWorkerQuit)
    /\ WF_vars(BridgeEnding)
    /\ WF_vars(WorkerCreate)
    /\ WF_vars(WorkerRecv)
    /\ WF_vars(WorkerExit)

FairSpec == Spec /\ Fairness

\* The generator thread, its client and the audio callback.
GenNext ==
    \/ GenStart
    \/ GenControl
    \/ GenPulse
    \/ GenBatch
    \/ ClientChangeFrequency
    \/ ClientPlay
    \/ ClientPause
    \/ ClientSendGenerateAudio
    \/ ClientSendQuit
    \/ SinkCallback

GenSpec == Init /\ [][GenNext]_vars

\* The bridge system with a client that also sends SetBufferSize.
BufferNext ==
    \/ Next
    \/ HandleSetBufferSize

BufferSpec == Init /\ [][BufferNext]_vars

\* The controller with its own Synthesizer, fed by a stream that reports
\* Reset and NeedsAudio(count).
AppNext ==
    \/ StreamReset
    \/ StreamCallbackCount
    \/ ControllerEvent
    \/ SourceChangeFrequency
    \/ SourcePlay
    \/ SourcePause
    \/ SourceDecreaseDelay
    \/ SourceIncreaseDelay

AppSpec == Init /\ [][AppNext]_vars

\* The generator thread driven by backpressure pulses alone, one queue
\* operation per step: its pushes and the callback's pops interleave freely.
PulseNext ==
    \/ GenStart
    \/ GenPulse
    \/ GenPush
    \/ SinkWindowStart
    \/ SinkWindowFrame
    \/ SinkWindowPulse

PulseSpec == Init /\ [][PulseNext]_vars

\* The same controller, started with any delay its buttons can reach.
DelaySpec == DelayInit /\ [][AppNext]_vars

\* The queue between a producer that pushes one sample at a time and the
\* audio callback that pops one sample at a time.
SinkNext ==
    \/ QueuePush
    \/ WindowStart
    \/ WindowFrame
    \/ WindowPulse

SinkSpec == SinkInit /\ [][SinkNext]_vars

\* ------------------------------------------------- properties: the bridge
IsPrefix(a, b) == Len(a) <= Len(b) /\ a = SubSeq(b, 1, Len(a))

QuitSent == \E i \in 1..Len(sent) : sent[i] = "Quit"
QuitDelivered == \E i \in 1..Len(events) : events[i].type = "Quit"
QuitIsLast == \A i \in 1..Len(events) : events[i].type = "Quit" => i = Len(events)
CloseIssued == ~windowClosed /\ windowClosed'
RelayedPulses == SelectSeq(events, LAMBDA e : e.type = "NeedsAudio")
PendingPulses == SelectSeq(audio_stream_event, LAMBDA e : e.type = "NeedsAudio")

\* C1: once the bridge is in Ready and the controller has sent Quit on the
\* control handle, eventually a Quit event is yielded, the worker thread has
\* ended and been joined and the bridge is Idle; no event follows the Quit.
C1_QuitLeadsToIdle ==
    /\ (state = "Ready" /\ QuitSent)
           ~> (QuitDelivered /\ handler = "done" /\ joined /\ state = "Idle")
    /\ [](QuitIsLast)

\* C2: whenever the bridge is Idle the worker thread has ended and been
\* joined; Idle is entered only from Ending, by a step that yields no event
\* and that finds the thread ended.
C2_IdleOnlyAfterJoin ==
    /\ [](state = "Idle" => joined /\ handler \in {"done", "panic"})
    /\ [][(state # "Idle" /\ state' = "Idle")
            => (state = "Ending" /\ handler \in {"done", "panic"}
                /\ joined' /\ events' = events)]_vars

C2_Witness == state = "Idle" /\ joined /\ handler = "done"

\* C3 (as claimed): the window close is never issued while the worker thread
\* is still running.
C3_CloseAfterWorkerEnds == [][CloseIssued => ~WorkerAlive]_vars

\* C3 (amended): the step that issues the window close first sends Quit on
\* the control handle when the send is possible, and waits for nothing: it
\* changes neither the worker thread, the stream nor the bridge state.
C3_CloseSendsQuitAndDoesNotWait ==
    [][CloseIssued =>
        /\ (SendAccepted => app_input' = Append(app_input, "Quit"))
        /\ UNCHANGED <<handler, joined, stream, state>>]_vars

C3_Witness == windowClosed /\ QuitSent /\ handler = "loop" /\ stream = "playing"

\* C4: the bridge state only moves Start -> Ready -> Ending -> Idle, a thread
\* is spawned only by the step leaving Start (so at most once), and once Idle
\* the state never changes and no event is yielded.
C4_StateOrder ==
    [][/\ (state' # state =>
             <<state, state'>> \in {<<"Start", "Ready">>, <<"Ready", "Ending">>,
                                    <<"Ending", "Idle">>})
       /\ (spawned' # spawned => state = "Start" /\ state' = "Ready")
       /\ spawned' <= 1
       /\ (state = "Idle" => state' = "Idle" /\ events' = events)]_vars

C4_Witness == state = "Idle" /\ spawned = 1 /\ Len(RelayedPulses) >= 1

\* C5, the part about order: in Ready the pulses yielded so far followed by
\* the pulses still in the channel are the pulses the worker side sent, in
\* send order; always the yielded pulses are a prefix of the sent ones.
RelayInOrder ==
    /\ IsPrefix(RelayedPulses, pulses)
    /\ (state = "Ready" => pulses = RelayedPulses \o PendingPulses)

\* A step of the bridge in Ready that takes a non-Quit event yields it and
\* stays in Ready.
RelayStaysReady ==
    (state = "Ready" /\ audio_stream_event # <<>>
     /\ Head(audio_stream_event).type # "Quit"
     /\ audio_stream_event' = Tail(audio_stream_event))
        => (state' = "Ready" /\ events' = Append(events, Head(audio_stream_event)))

\* C5 (as claimed): non-Quit worker events are relayed in order and leave the
\* bridge in Ready; a Quit from the worker moves the bridge to Ending and is
\* not relayed to the controller.
C5_QuitNotRelayed ==
    /\ [](RelayInOrder)
    /\ [][/\ RelayStaysReady
          /\ (state = "Ready" /\ state' # "Ready"
                => state' = "Ending" /\ events' = events)]_vars

\* C5 (amended): non-Quit worker events are relayed in order and leave the
\* bridge in Ready; a Quit from the worker moves the bridge to Ending and is
\* relayed to the controller as the last event.
C5_RelayInOrderQuitRelayed ==
    /\ [](RelayInOrder /\ QuitIsLast)
    /\ [][/\ RelayStaysReady
          /\ (state = "Ready" /\ state' # "Ready"
                => /\ Head(audio_stream_event).type = "Quit"
                   /\ state' = "Ending"
                   /\ events' = Append(events, QuitEvent))]_vars

C5_Witness ==
    /\ state = "Ending"
    /\ Len(RelayedPulses) >= 2
    /\ events[Len(events)].type = "Quit"

\* C6: while the bridge is in Ready and the worker thread is alive, the
\* inputs the worker has dequeued, followed by those in the forward channel,
\* followed by those not yet forwarded, are exactly the inputs the controller
\* sent, in send order; what the worker dequeued is always a prefix of them.
C6_ForwardFIFO ==
    /\ IsPrefix(received, sent)
    /\ (state = "Ready" /\ WorkerAlive
          => sent = received \o app_input_forward \o app_input)

C6_Witness ==
    /\ Len(received) >= 3
    /\ received = sent
    /\ received[1] # received[2]
    /\ Len(RelayedPulses) >= 1

\* C7: Ready is yielded at most once, it is the first event, and it is
\* yielded only for a worker whose stream creation does not fail.
C7_ReadyOnlyForWorkingWorker ==
    /\ Cardinality({i \in 1..Len(events) : events[i].type = "Ready"}) <= 1
    /\ (events # <<>> => events[1].type = "Ready")
    /\ (events # <<>> => stream # "failed")

\* C8: when stream creation fails there is no retry and the controller holds
\* no control handle for the session.
C8_NoHandleWhenCreationFails ==
    /\ spawned <= 1
    /\ (stream = "failed" => ~audio_interface_sender)

\* ------------------------------------------------- properties: the generator
\* is_playing after the Play and Pause messages of log, applied in order.
PlayingAfter(log) ==
    LET pp == SelectSeq(log, LAMBDA c : c.op \in {"Play", "Pause"})
    IN  IF pp = <<>> THEN TRUE ELSE pp[Len(pp)].op = "Play"

\* Sum of the counts of the GenerateAudio messages of log.
RECURSIVE RequestedFrames(_)
RequestedFrames(log) ==
    IF log = <<>> THEN 0 ELSE Head(log).count + RequestedFrames(Tail(log))

ChangesIn(log) == Len(SelectSeq(log, LAMBDA c : c.op = "ChangeFrequency"))
QuitsIn(log) == Len(SelectSeq(log, LAMBDA c : c.op = "Quit"))

\* C9: the generator thread dequeues its control messages in send order and
\* applies each one; it ends exactly when it dequeues the first Quit, having
\* applied everything sent ahead of it, and after that it dequeues no
\* control message and no pulse and changes nothing, whatever pulses are
\* interleaved.
C9_ControlFIFO ==
    /\ [](/\ IsPrefix(genApplied, genSent)
          /\ is_playing = PlayingAfter(genApplied)
          /\ (genPc # "start" => Len(client_receiver) = 1 + ChangesIn(genApplied))
          /\ (genPc \in {"loop", "done"} =>
                remaining = 0 /\ sample_clock >= RequestedFrames(genApplied))
          /\ (genPc # "done" =>
                /\ genSent = genApplied \o generator_receiver
                /\ QuitsIn(genApplied) = 0)
          /\ (genPc = "done" =>
                /\ QuitsIn(genApplied) = 1
                /\ genApplied[Len(genApplied)].op = "Quit"))
    /\ [][genPc = "done" =>
            UNCHANGED <<genPc, genApplied, pulsesHandled, is_playing,
                        sample_clock, frequency, client_receiver, remaining,
                        generator_receiver, needs_more_data>>]_vars

C9_Witness ==
    /\ genPc = "done"
    /\ Len(genApplied) >= 2
    /\ Len(genSent) > Len(genApplied)
    /\ pulsesHandled >= 1

\* C10: the step that takes a pulse measures shortfall = capacity - length,
\* pushes nothing itself, and starts a generation of exactly shortfall
\* frames when shortfall >= 64 and none otherwise; the generation then adds
\* exactly that many ticks to sample_clock and, when playing, that many
\* frames to the queue.
C10_PulseGeneratesShortfall ==
    [][/\ (pulsesHandled' # pulsesHandled =>
             /\ UNCHANGED <<sample_clock, queue>>
             /\ IF Capacity - Len(queue) >= MinBatch
                THEN genPc' = "generating" /\ remaining' = Capacity - Len(queue)
                ELSE genPc' = "loop" /\ remaining' = 0)
       /\ (genPc = "generating" /\ genPc' = "generating" =>
             UNCHANGED <<remaining, sample_clock, is_playing>>)
       /\ (genPc = "generating" /\ genPc' # "generating" =>
             /\ genPc' = "loop"
             /\ sample_clock' = sample_clock + remaining
             /\ Len(queue') = IF ~is_playing THEN Len(queue)
                              ELSE IF Len(queue) + remaining <= Capacity
                              THEN Len(queue) + remaining ELSE Capacity)]_vars

C10_Witness ==
    /\ pulsesHandled = 2
    /\ genApplied = <<>>
    /\ genPc = "loop"
    /\ sample_clock = Capacity
    /\ Len(queue) = Capacity - (MinBatch - 1)

\* ------------------------------------------------- properties: the controller
\* The controller handles a NeedsAudio event while it holds a queue.
NeedsAudioHandled ==
    /\ handled' = handled + 1
    /\ events[handled + 1].type = "NeedsAudio"
    /\ app_queue

\* C11: the number of frames synthesized in response to a need-more-audio
\* signal is the shortfall (capacity - length) of the queue at the time the
\* receiver handles the signal, never a count carried by the signal: the
\* controller's Synthesizer advances by exactly that shortfall, and the
\* generator thread starts a generation of exactly that shortfall.
C11_FramesRecomputedByReceiver ==
    [][/\ (NeedsAudioHandled =>
              synthesizer'.sample_clock - synthesizer.sample_clock
                  = Capacity - Len(queue))
       /\ (pulsesHandled' # pulsesHandled /\ genPc' = "generating" =>
              remaining' = Capacity - Len(queue))]_vars

\* ------------------------------------------------- properties: the queue
\* The last n entries of a sequence.
LastN(seq, n) == SubSeq(seq, Len(seq) - n + 1, Len(seq))

\* C12: after N >= C consecutive force-pushes with no pop in between into a
\* queue of capacity C, the queue holds C entries and they are the last C
\* pushed values in push order.
C12_ForcePushKeepsLastC ==
    Len(pushedRun) >= sink_queue.capacity =>
        /\ Len(sink_queue.items) = sink_queue.capacity
        /\ sink_queue.items = LastN(pushedRun, sink_queue.capacity)

\* More pushes than the capacity of a queue of at least two slots, made
\* after the callback had popped.
C12_Witness ==
    /\ sink_queue.capacity >= 2
    /\ Len(pushedRun) > sink_queue.capacity
    /\ poppedNow > 0

\* C13: under every interleaving of the producer's force-pushes and the
\* callback's pops the queue keeps the capacity it was created with and its
\* length stays within 0..capacity.
C13_QueueBounds ==
    /\ [](/\ 0 <= Len(sink_queue.items)
          /\ Len(sink_queue.items) <= sink_queue.capacity)
    /\ [][sink_queue'.capacity = sink_queue.capacity]_vars

\* A full queue of at least two slots in the middle of a callback that has
\* popped, after a push that had to evict.
C13_Witness ==
    /\ window.pc = "frames"
    /\ poppedNow >= 1
    /\ pushedRun # <<>>
    /\ sink_queue.capacity >= 2
    /\ Len(sink_queue.items) = sink_queue.capacity
    /\ pushCount > sink_queue.capacity + poppedNow

\* ------------------------------------------------- properties: the callback
\* Frames the on_window invocation in progress has to fill.
WindowFrames == Len(window.output) \div channel_count

\* The callback pops (one iteration of its loop runs).
CallbackPops == poppedNow' = poppedNow + 1

\* C14: a pop the callback makes against an empty queue never blocks or
\* fails: whenever the callback has a frame left to fill its next iteration
\* can run; run against an empty queue it leaves the queue empty and the
\* sample it writes is silence (0.0 left, and 0.0 right where the frame has
\* a second slot), every time.
C14_EmptyPopYieldsSilence ==
    /\ [](window.pc = "frames" /\ window.frame < WindowFrames
             => ENABLED WindowFrame)
    /\ [][CallbackPops /\ sink_queue.items = <<>> =>
             /\ sink_queue' = sink_queue
             /\ window'.output[window.frame * channel_count + 1]
                    = Silence.left
             /\ (channel_count >= 2 =>
                    window'.output[window.frame * channel_count + 2]
                        = Silence.right)]_vars

\* Two pops in a row against an empty queue, both written as silence.
C14_Witness ==
    /\ window.frame >= 2
    /\ sink_queue.items = <<>>
    /\ window.output[1] = Silence.left
    /\ window.output[channel_count + 1] = Silence.left

\* ------------------------------------------------- properties: the generator
\* A generate_audio call of the generator thread returns.
GenerationEnds == genPc = "generating" /\ genPc' # "generating"

\* C15: a generation call of n frames leaves sample_clock at its previous
\* value plus n whether playing or paused; no other step changes
\* sample_clock, so it never decreases.
C15_ClockAdvancesByCount ==
    [][/\ (GenerationEnds => sample_clock' = sample_clock + remaining)
       /\ (~GenerationEnds => sample_clock' = sample_clock)
       /\ sample_clock' >= sample_clock]_vars

\* A generation made while playing (its sample is in the queue) followed
\* by one made while paused (the clock has moved on without a push).
C15_Witness ==
    /\ genPc = "loop"
    /\ ~is_playing
    /\ queue # <<>>
    /\ sample_clock > queue[Len(queue)] + 1

\* C16: while the generator is paused a generation call pushes nothing: it
\* leaves the queue as it was, and every step taken while paused leaves the
\* queue no longer than it was.
C16_PausedPushesNothing ==
    [][~is_playing =>
          /\ (GenerationEnds => queue' = queue)
          /\ Len(queue') <= Len(queue)]_vars

\* A pulse-triggered generation made while paused over a queue that holds a
\* sample: the clock has moved on by a whole batch since the last push.
C16_Witness ==
    /\ genPc = "loop"
    /\ ~is_playing
    /\ pulsesHandled >= 1
    /\ queue # <<>>
    /\ sample_clock >= queue[Len(queue)] + 1 + MinBatch

\* ------------------------------------------------- properties: the frequency
\* Natural numbers of any size, as their base-10000 digits, lowest first,
\* without leading zeros (0 is <<>>).
RECURSIVE BigTrim(_)
BigTrim(x) ==
    IF x = <<>> THEN <<>>
    ELSE IF x[Len(x)] = 0 THEN BigTrim(SubSeq(x, 1, Len(x) - 1))
    ELSE x

\* x * c + carry for a small natural c.
RECURSIVE BigMulAdd(_, _, _)
BigMulAdd(x, c, carry) ==
    IF x = <<>>
    THEN IF carry = 0 THEN <<>>
         ELSE <<carry % 10000>> \o BigMulAdd(<<>>, c, carry \div 10000)
    ELSE LET t == Head(x) * c + carry
         IN  <<t % 10000>> \o BigMulAdd(Tail(x), c, t \div 10000)

BigOf(n) == BigMulAdd(<<>>, 0, n)
BigMul(x, c) == BigTrim(BigMulAdd(x, c, 0))

\* x * c^k
RECURSIVE BigMulPow(_, _, _)
BigMulPow(x, c, k) == IF k = 0 THEN x ELSE BigMulPow(BigMul(x, c), c, k - 1)

\* x + y + carry
RECURSIVE BigAdd(_, _, _)
BigAdd(x, y, carry) ==
    IF x = <<>> /\ y = <<>>
    THEN IF carry = 0 THEN <<>> ELSE <<carry>>
    ELSE LET a == IF x = <<>> THEN 0 ELSE Head(x)
             b == IF y = <<>> THEN 0 ELSE Head(y)
             t == a + b + carry
         IN  <<t % 10000>> \o BigAdd(IF x = <<>> THEN <<>> ELSE Tail(x),
                                     IF y = <<>> THEN <<>> ELSE Tail(y),
                                     t \div 10000)

\* x <= y
RECURSIVE BigLeq(_, _)
BigLeq(x, y) ==
    IF Len(x) # Len(y) THEN Len(x) < Len(y)
    ELSE IF x = <<>> THEN TRUE
    ELSE IF x[Len(x)] # y[Len(y)] THEN x[Len(x)] < y[Len(y)]
    ELSE BigLeq(SubSeq(x, 1, Len(x) - 1), SubSeq(y, 1, Len(y) - 1))

\* |x - y| <= t
BigWithin(x, y, t) == BigLeq(x, BigAdd(y, t, 0)) /\ BigLeq(y, BigAdd(x, t, 0))

\* The f32 product of 440.0 and k factors 1.01, multiplied in one at a time.
RECURSIVE F32Power(_)
F32Power(k) == IF k = 0 THEN F32_440 ELSE F32Mul(F32Power(k - 1), F32_1_01)

\* With f the controller's frequency, k the number of ChangeFrequency
\* messages applied and s = 2^(-f.e) * 100^k: the naturals f * s and
\* 440 * 1.01^k * s.
FrequencyScaled ==
    BigMulPow(BigOf(synthesizer.frequency.m), 100, frequencyChanges)
PowerScaled ==
    BigMulPow(BigMul(BigOf(440), 2^(-synthesizer.frequency.e)), 101,
              frequencyChanges)

\* C17 (as stated): after k ChangeFrequency commands the frequency equals
\* 440.0 x 1.01^k; read as generously as an f32 allows, it is the f32
\* nearest to that product (within half a unit in its last place).
C17_FrequencyIsPower ==
    /\ synthesizer.frequency.e <= 0
    /\ BigWithin(BigMul(FrequencyScaled, 2), BigMul(PowerScaled, 2),
                 BigMulPow(BigOf(1), 100, frequencyChanges))

\* C17 (amended): after k ChangeFrequency commands, whatever Play, Pause
\* and generation calls came between them, the frequency is the f32 result
\* of multiplying 440.0 by the f32 nearest 1.01 k times, rounding each time;
\* it is a positive normal f32 and differs from 440.0 x 1.01^k by at most
\* k * 2^-23 of that product.
C17_FrequencyIsRoundedPower ==
    /\ synthesizer.frequency = F32Power(frequencyChanges)
    /\ synthesizer.frequency.m >= 2^23
    /\ synthesizer.frequency.e <= 0
    /\ BigWithin(BigMul(BigMul(FrequencyScaled, 4096), 2048),
                 BigMul(BigMul(PowerScaled, 4096), 2048),
                 BigMul(PowerScaled, frequencyChanges))

\* Three or more changes of frequency around a Pause and a generation.
C17_Witness ==
    /\ frequencyChanges >= 3
    /\ ~synthesizer.is_playing
    /\ synthesizer.sample_clock > 0
    /\ synthesizer.frequency # F32_440

\* ------------------------------------------------- properties: on_window
\* The on_window invocation in progress ends.
WindowEnds == window.pc = "frames" /\ window'.pc # "frames"

\* C18: each invocation of the audio callback pops exactly one sample per
\* output frame slot (output length / channel count pops) and then sends
\* exactly one pulse, however many frames it filled and whether or not the
\* queue ran empty; pulses are sent at no other time.
C18_PopsPerFrameThenOnePulse ==
    [][/\ (WindowEnds =>
              /\ window'.pc = "idle"
              /\ poppedNow = WindowFrames
              /\ windowPulses' = windowPulses + 1)
       /\ (windowPulses' # windowPulses => WindowEnds)]_vars

\* C19: on a mono output device (channel_count = 1) the callback completes
\* normally for every buffer length: it never panics, and once it has
\* returned it has popped one sample per one-slot frame and written every
\* slot.
C19_MonoCallbackCompletes ==
    channel_count = 1 =>
        /\ window.pc # "panicked"
        /\ (window.pc = "idle" /\ windows > 0 =>
               /\ poppedNow = Len(window.output)
               /\ \A i \in 1..Len(window.output) :
                      window.output[i] # "unwritten")

\* ------------------------------------------------- properties: SetBufferSize
\* C20: a SetBufferSize command that reaches the worker is fatal: the worker
\* thread has terminated by a panic, its stream is gone, and SetBufferSize
\* is the last command it ever took (it is no no-op after which the worker
\* goes on with further commands).
C20_SetBufferSizeIsFatal ==
    \A i \in 1..Len(received) :
        received[i] = "SetBufferSize" =>
            /\ i = Len(received)
            /\ handler = "panic"
            /\ stream = "closed"

\* The worker took a command, then SetBufferSize, and a command sent after
\* that has been forwarded by the bridge and is lost.
C20_Witness ==
    /\ Len(received) = 2
    /\ received[2] = "SetBufferSize"
    /\ Len(sent) = 3
    /\ app_input = <<>>
    /\ app_input_forward = <<>>

\* ------------------------------------------------- properties: dead receivers
\* The generator's client makes a send; the audio callback runs.
ClientSends == controls' = controls + 1
CallbackRuns == sinkCallbacks' = sinkCallbacks + 1

ForwardToEndedWorker ==
    [][state = "Ready" /\ app_input' # app_input /\ sent' = sent
          /\ ~WorkerAlive =>
             /\ app_input' = Tail(app_input)
             /\ UNCHANGED <<state, handler, joined, spawned, app_input_forward,
                            audio_stream_event, events, stream, received>>
      ]_vars

\* ------------------------------------------------- properties: the fake delay
\* x < y for two u64: the highest bit in which they differ is set in y.
U64Lt(x, y) ==
    /\ x # y
    /\ LET differ == (x \ y) \cup (y \ x)
           top == CHOOSE b \in differ : \A c \in differ : c <= b
       IN  top \in y

\* The controller takes a Reset event and makes a new Synthesizer.
SynthesizerReplaced ==
    handled' = handled + 1 /\ events[handled + 1].type = "Reset"

\* C22: the fake delay is adjusted only by the two controls. DecreaseDelay
\* halves it (0 stays 0); IncreaseDelay turns 0 into 1 and otherwise doubles
\* it, without a ceiling, so that every IncreaseDelay yields a value
\* strictly greater than the one before, however many are made in a row.
C22_DelayAdjustedByControls ==
    [][/\ (SourceDecreaseDelay =>
              synthesizer'.fake_delay =
                  {b - 1 : b \in synthesizer.fake_delay \ {0}})
       /\ (SourceIncreaseDelay =>
              /\ synthesizer'.fake_delay =
                     IF synthesizer.fake_delay = U64_0 THEN U64_1
                     ELSE {b + 1 : b \in synthesizer.fake_delay}
              /\ U64Lt(synthesizer.fake_delay, synthesizer'.fake_delay))
       /\ (synthesizer'.fake_delay # synthesizer.fake_delay =>
              \/ SourceDecreaseDelay
              \/ SourceIncreaseDelay
              \/ SynthesizerReplaced)]_vars

\* ------------------------------------------------- properties: Frequency events
\* C23: the generator thread emits one Frequency event when it is created
\* and one after each ChangeFrequency it processes, and on no other
\* occasion: after k processed ChangeFrequency commands the client's event
\* channel has received exactly k + 1 events, the i-th carrying the
\* frequency after i - 1 changes, and the last one is the generator's
\* current frequency.
C23_FrequencyEvents ==
    /\ (genPc = "start" => client_receiver = <<>>)
    /\ (genPc # "start" =>
          /\ Len(client_receiver) = ChangesIn(genApplied) + 1
          /\ \A i \in 1..Len(client_receiver) :
                client_receiver[i] = F32Power(i - 1)
          /\ client_receiver[Len(client_receiver)] = frequency)

C23_Witness ==
    /\ ChangesIn(genApplied) = 2
    /\ Len(genApplied) = 3
    /\ pulsesHandled >= 1
    /\ sample_clock > 0
    /\ client_receiver = <<F32_440, F32Power(1), F32Power(2)>>

\* ------------------------------------------------- properties: Play and Pause
\* The controller's synthesizer keeps everything but is_playing, and the
\* queue keeps its contents.
SynthesizerKeepsRest ==
    /\ synthesizer'.sample_clock = synthesizer.sample_clock
    /\ synthesizer'.frequency = synthesizer.frequency
    /\ synthesizer'.fake_delay = synthesizer.fake_delay
    /\ synthesizer'.sample_rate = synthesizer.sample_rate
    /\ queue' = queue

\* The generator thread dequeues the control message op.
GenDequeues(op) ==
    /\ genApplied' # genApplied
    /\ Head(generator_receiver).op = op

\* C24: Play sets is_playing to true and Pause sets it to false, each
\* idempotent, and neither changes sample_clock, frequency, fake delay or
\* the queue's contents; for the controller's synthesizer and for the
\* generator thread's.
C24_PlayPauseFrame ==
    [][/\ (SourcePlay => synthesizer'.is_playing /\ SynthesizerKeepsRest)
       /\ (SourcePause => ~synthesizer'.is_playing /\ SynthesizerKeepsRest)
       /\ (GenDequeues("Play") =>
              is_playing' /\ UNCHANGED <<sample_clock, frequency, queue>>)
       /\ (GenDequeues("Pause") =>
              ~is_playing' /\ UNCHANGED <<sample_clock, frequency, queue>>)
      ]_vars

C24_Witness ==
    /\ ~synthesizer.is_playing
    /\ synthesizer.sample_clock > 0
    /\ synthesizer.frequency # F32_440
    /\ synthesizer.fake_delay # U64_1
    /\ queue # <<>>

\* ------------------------------------------------- properties: pulse-driven pushes
\* C25: when generation is triggered by backpressure pulses alone, the
\* generator never evicts an unread sample: every force_push finds free
\* space under any interleaving with the callback's pops, so every sample
\* pushed has been popped by the callback in push order or is still in the
\* queue (the queue is always the unbroken run of the latest samples made,
\* it grows only at its tail by the sample just made and shrinks only at
\* its head by a pop of the callback).
C25_PulseNeverEvicts ==
    /\ [](\A i \in 1..Len(queue) :
             queue[i] = sample_clock - Len(queue) + i - 1)
    /\ [][/\ (sample_clock' # sample_clock =>
                /\ Len(queue) < Capacity
                /\ queue' = Append(queue, sample_clock))
           /\ (queue' # queue /\ sample_clock' = sample_clock =>
                /\ window'.frame = window.frame + 1
                /\ queue' = Tail(queue))]_vars

C25_Witness ==
    /\ pulsesHandled = 2
    /\ genPc = "loop"
    /\ sample_clock > Capacity
    /\ Len(queue) = Capacity
    /\ genSent = <<>>

\* ------------------------------------------------- properties: leaving Ready
\* The worker thread has ended and never dequeued a Quit.
EndedWithoutQuit ==
    /\ handler \in {"done", "panic"}
    /\ \A i \in 1..Len(received) : received[i] # "Quit"

\* C26: the bridge leaves Ready only on receiving a Quit event from the
\* worker, and then for Ending; if the worker thread has ended without
\* emitting one (stream creation failed, or it died on SetBufferSize) the
\* bridge is in Ready and stays there, it never reaches Ending or Idle, and
\* no Quit event is produced whatever the controller sends afterwards.
C26_ReadyUntilWorkerQuit ==
    /\ [][state = "Ready" /\ state' # "Ready" =>
             /\ audio_stream_event # <<>>
             /\ Head(audio_stream_event) = QuitEvent
             /\ state' = "Ending"
             /\ events' = Append(events, QuitEvent)]_vars
    /\ [](EndedWithoutQuit =>
             /\ state = "Ready"
             /\ ~joined
             /\ audio_stream_event = SelectSeq(audio_stream_event,
                                        LAMBDA e : e.type # "Quit")
             /\ \A i \in 1..Len(events) : events[i].type # "Quit")
    /\ [][EndedWithoutQuit => EndedWithoutQuit']_vars

\* Stream creation failed, and the Quit the controller sent at window close
\* has been forwarded to the worker that is gone.
C26_Witness ==
    /\ EndedWithoutQuit
    /\ stream = "failed"
    /\ windowClosed
    /\ sent # <<>>
    /\ sent[Len(sent)] = "Quit"
    /\ app_input = <<>>
    /\ state = "Ready"
====
